---- MODULE Spec2Model ----
(***************************************************************************)
(* Model of scripts/generate-index.cjs: the catalog builder that scans the *)
(* category directories, reads the front matter of every markdown file    *)
(* and writes index.json.                                                  *)
(*                                                                         *)
(* JavaScript strings are modelled as sequences of one-character strings,  *)
(* so that endsWith, replace and template concatenation are computed.      *)
(***************************************************************************)
EXTENDS Integers, Sequences, FiniteSets, TLC

VARIABLES
  fs,        \* the corpus on disk: one directory state per configured category
  outFile,   \* content of index.json
  now,       \* the system clock (UTC calendar date)
  pc,        \* position of the script: "cat", "file", "log", "done", "failed"
  ci,        \* position of categories.forEach
  files,     \* const files of the current category
  fi,        \* position of files.forEach
  index,     \* const index = {}
  console,   \* lines printed by console.log in this run (the item count)
  err,       \* the uncaught exception that ended the run
  run,       \* number of the current invocation of the script
  prevOut,   \* content of index.json when the current invocation started
  prevDone,  \* whether the previous invocation ran to completion
  t0,        \* the clock when the first invocation started
  writes     \* calls of fs.writeFileSync made by the current invocation

vars == <<fs, outFile, now, pc, ci, files, fi, index, console, err, run,
          prevOut, prevDone, t0, writes>>

(***************************************************************************)
(* Bounds                                                                  *)
(***************************************************************************)
MaxFiles == 2      \* most directory entries in a corpus
MaxPresent == 2    \* most category directories in a corpus
MaxDay == 2        \* last calendar day the clock reaches
MaxRuns == 2       \* invocations of the script

(***************************************************************************)
(* Strings                                                                 *)
(***************************************************************************)
md == <<".", "m", "d">>
slash == <<"/">>

EndsWith(s, suf) ==
  /\ Len(s) >= Len(suf)
  /\ SubSeq(s, Len(s) - Len(suf) + 1, Len(s)) = suf

StartsWith(s, pre) ==
  /\ Len(s) >= Len(pre)
  /\ SubSeq(s, 1, Len(pre)) = pre

\* String.prototype.indexOf, 1-based; 0 when pat does not occur
IndexOf(s, pat) ==
  LET hits == {i \in 1..(Len(s) + 1) :
                 /\ i + Len(pat) - 1 <= Len(s)
                 /\ SubSeq(s, i, i + Len(pat) - 1) = pat}
  IN IF hits = {} THEN 0 ELSE CHOOSE i \in hits : \A j \in hits : i <= j

\* String.prototype.replace with a string pattern: the first occurrence only
Replace(s, pat, rep) ==
  LET i == IndexOf(s, pat)
  IN IF i = 0 THEN s
     ELSE SubSeq(s, 1, i - 1) \o rep \o SubSeq(s, i + Len(pat), Len(s))

Digit(n) == <<"0", "1", "2", "3", "4", "5", "6", "7", "8", "9">>[n + 1]

RECURSIVE Pad(_, _)
\* decimal digits of n, left-padded with zeros to width w
Pad(n, w) == IF w = 0 THEN <<>> ELSE Append(Pad(n \div 10, w - 1), Digit(n % 10))

\* the date in the day/month/year order of toLocaleDateString
ISODateLocal(t) == Pad(t.d, 2) \o <<"/">> \o Pad(t.m, 2) \o <<"/">> \o Pad(t.y, 4)

\* new Date().toISOString().split('T')[0]
ISODate(t) == Pad(t.y, 4) \o <<"-">> \o Pad(t.m, 2) \o <<"-">> \o Pad(t.d, 2)

\* Date.prototype.toISOString of a calendar date at midnight UTC
ISOString(t) ==
  ISODate(t) \o <<"T", "0", "0", ":", "0", "0", ":", "0", "0", ".", "0", "0", "0", "Z">>

(***************************************************************************)
(* JavaScript values                                                       *)
(***************************************************************************)
Undef == [k |-> "undefined", s |-> <<>>, n |-> 0, l |-> <<>>]
Null == [k |-> "null", s |-> <<>>, n |-> 0, l |-> <<>>]
Str(s) == [k |-> "string", s |-> s, n |-> 0, l |-> <<>>]
Num(n) == [k |-> "number", s |-> <<>>, n |-> n, l |-> <<>>]
Arr(l) == [k |-> "array", s |-> <<>>, n |-> 0, l |-> l]
\* the calendar date of day d of the month the model's clock runs in
Day(d) == [y |-> 2026, m |-> 11, d |-> d]

\* a Date object: midnight UTC of Day(n)
DateObj(n) == [k |-> "date", s |-> <<>>, n |-> n, l |-> <<>>]

Truthy(v) ==
  CASE v.k = "undefined" -> FALSE
    [] v.k = "null" -> FALSE
    [] v.k = "string" -> v.s # <<>>
    [] v.k = "number" -> v.n # 0
    [] OTHER -> TRUE

\* a && b
AndJS(a, b) == IF Truthy(a) THEN b ELSE a

\* a || b
Or(a, b) == IF Truthy(a) THEN a ELSE b

(***************************************************************************)
(* Program constants                                                       *)
(***************************************************************************)
\* const categories = ['standards', 'templates', 'prompts', 'reviews', 'architecture']
categories ==
  << <<"s", "t", "a", "n", "d", "a", "r", "d", "s">>,
     <<"t", "e", "m", "p", "l", "a", "t", "e", "s">>,
     <<"p", "r", "o", "m", "p", "t", "s">>,
     <<"r", "e", "v", "i", "e", "w", "s">>,
     <<"a", "r", "c", "h", "i", "t", "e", "c", "t", "u", "r", "e">> >>

NoDescription == <<"N", "o", " ", "d", "e", "s", "c", "r", "i", "p", "t", "i", "o", "n", " ", "p", "r", "o", "v", "i", "d", "e", "d">>
Unknown == <<"U", "n", "k", "n", "o", "w", "n">>

(***************************************************************************)
(* gray-matter                                                             *)
(***************************************************************************)
\* the front-matter keys the model distinguishes; "model" stands for any key
\* the script does not read
Keys == {"title", "description", "author", "created", "tags",
         "filename", "link", "category", "model"}

EmptyData == [key \in Keys |-> Undef]

\* matter(content).  A file's content is [hdr, yaml, data]:
\*   hdr  "none"     the text does not start with the --- delimiter
\*        "closed"   a block between an opening and a closing --- line
\*        "unclosed" an opening --- with no closing line: the rest of the
\*                   text is taken as the block
\*   yaml "ok" or "bad": whether the block is well-formed YAML
\*   data the mapping the YAML engine yields for a well-formed block
\* The YAML engine throws on a block it cannot parse and matter does not
\* catch it.
matter(content) ==
  IF content.hdr = "none" THEN [threw |-> FALSE, data |-> EmptyData]
  ELSE IF content.yaml = "bad" THEN [threw |-> TRUE, data |-> EmptyData]
  ELSE [threw |-> FALSE, data |-> content.data]

(***************************************************************************)
(* The record of one document                                              *)
(***************************************************************************)
\* the literal with the front matter spread over the derived fields
RecordSpread(category, filename, data, t) ==
  [ title       |-> Or(data["title"], Str(Replace(filename, md, <<>>))),
    description |-> Or(data["description"], Str(NoDescription)),
    filename    |-> Or(data["filename"], Str(filename)),
    link        |-> Or(data["link"], Str(category \o slash \o filename)),
    category    |-> Or(data["category"], Str(category)),
    author      |-> Or(data["author"], Str(Unknown)),
    created     |-> Or(data["created"], Str(ISODate(t))),
    tags        |-> Or(data["tags"], Arr(<<>>)) ]

\* the literal with the operands of the title default exchanged
RecordFilenameFirst(category, filename, data, t) ==
  [ title       |-> Or(Str(Replace(filename, md, <<>>)), data["title"]),
    description |-> Or(data["description"], Str(NoDescription)),
    filename    |-> Str(filename),
    link        |-> Str(category \o slash \o filename),
    category    |-> Str(category),
    author      |-> Or(data["author"], Str(Unknown)),
    created     |-> Or(data["created"], Str(ISODate(t))),
    tags        |-> Or(data["tags"], Arr(<<>>)) ]

\* the literal with the description defaulted by ?? instead of ||
RecordNullish(category, filename, data, t) ==
  [ title       |-> Or(data["title"], Str(Replace(filename, md, <<>>))),
    description |-> IF data["description"].k \in {"undefined", "null"}
                    THEN Str(NoDescription) ELSE data["description"],
    filename    |-> Str(filename),
    link        |-> Str(category \o slash \o filename),
    category    |-> Str(category),
    author      |-> Or(data["author"], Str(Unknown)),
    created     |-> Or(data["created"], Str(ISODate(t))),
    tags        |-> Or(data["tags"], Arr(<<>>)) ]

\* the literal with a front-matter key of the open schema copied along
RecordExtra(category, filename, data, t) ==
  [ title       |-> Or(data["title"], Str(Replace(filename, md, <<>>))),
    description |-> Or(data["description"], Str(NoDescription)),
    filename    |-> Str(filename),
    link        |-> Str(category \o slash \o filename),
    category    |-> Str(category),
    author      |-> Or(data["author"], Str(Unknown)),
    created     |-> Or(data["created"], Str(ISODate(t))),
    tags        |-> Or(data["tags"], Arr(<<>>)),
    model       |-> data["model"] ]

\* the literal with the link given relative to the category directory
RecordLinkInCategory(category, filename, data, t) ==
  [ title       |-> Or(data["title"], Str(Replace(filename, md, <<>>))),
    description |-> Or(data["description"], Str(NoDescription)),
    filename    |-> Str(filename),
    link        |-> Str(filename),
    category    |-> Str(category),
    author      |-> Or(data["author"], Str(Unknown)),
    created     |-> Or(data["created"], Str(ISODate(t))),
    tags        |-> Or(data["tags"], Arr(<<>>)) ]

\* the object literal pushed for (category, filename), data = parsed.data,
\* t = the clock when the literal is evaluated
Record(category, filename, data, t) ==
  [ title       |-> Or(data["title"], Str(Replace(filename, md, <<>>))),
    description |-> Or(data["description"], Str(NoDescription)),
    filename    |-> Str(filename),
    link        |-> Str(category \o slash \o filename),
    category    |-> Str(category),
    author      |-> Or(data["author"], Str(Unknown)),
    created     |-> Or(data["created"], Str(ISODate(t))),
    tags        |-> Or(data["tags"], Arr(<<>>)) ]

(***************************************************************************)
(* The index object and its serialisation                                  *)
(***************************************************************************)
\* A JavaScript object with string keys is a sequence of [key, val] in
\* insertion order.
HasKey(obj, key) == \E i \in 1..Len(obj) : obj[i].key = key

\* the assignment with a new key placed before the existing ones
SetKeyFront(obj, key, val) ==
  IF HasKey(obj, key)
  THEN [i \in 1..Len(obj) |->
          IF obj[i].key = key THEN [key |-> key, val |-> val] ELSE obj[i]]
  ELSE <<[key |-> key, val |-> val]>> \o obj

\* obj[key] = val
SetKey(obj, key, val) ==
  IF HasKey(obj, key)
  THEN [i \in 1..Len(obj) |->
          IF obj[i].key = key THEN [key |-> key, val |-> val] ELSE obj[i]]
  ELSE Append(obj, [key |-> key, val |-> val])

\* obj[key]
Get(obj, key) == obj[CHOOSE i \in 1..Len(obj) : obj[i].key = key].val

\* obj[key].unshift(x)
PushFront(obj, key, x) ==
  [i \in 1..Len(obj) |->
     IF obj[i].key = key
     THEN [key |-> key, val |-> <<x>> \o obj[i].val]
     ELSE obj[i]]

\* obj[key].push(x)
Push(obj, key, x) ==
  [i \in 1..Len(obj) |->
     IF obj[i].key = key
     THEN [key |-> key, val |-> Append(obj[i].val, x)]
     ELSE obj[i]]

\* JSON.stringify of one value: a Date serialises through toISOString,
\* strings, numbers, null and arrays of strings serialise as themselves
ToJSON(v) == IF v.k = "date" THEN Str(ISOString(Day(v.n))) ELSE v

\* JSON.stringify(index, null, 2): the document text is determined by, and
\* determines, the ordered keys, the ordered records and the serialised
\* field values, so the text is modelled as that structure
Stringify(obj) ==
  [i \in 1..Len(obj) |->
     [key |-> obj[i].key,
      val |-> [j \in 1..Len(obj[i].val) |->
                 [f \in DOMAIN obj[i].val[j] |-> ToJSON(obj[i].val[j][f])]]]]

\* the array left as it is: one element per category
FlatNot(arrs) == arrs

RECURSIVE Flat(_)
\* Array.prototype.flat() of an array of arrays of records
Flat(arrs) == IF arrs = <<>> THEN <<>> ELSE Head(arrs) \o Flat(Tail(arrs))

\* Object.values(obj)
Values(obj) == [i \in 1..Len(obj) |-> obj[i].val]

(***************************************************************************)
(* The corpus                                                              *)
(***************************************************************************)
NoFrontMatter == [hdr |-> "none", yaml |-> "ok", data |-> EmptyData]
FrontMatter(data) == [hdr |-> "closed", yaml |-> "ok", data |-> data]
Unclosed(data) == [hdr |-> "unclosed", yaml |-> "ok", data |-> data]
BadYaml(hdr) == [hdr |-> hdr, yaml |-> "bad", data |-> EmptyData]

\* a directory entry
File(name, content) ==
  [name |-> name, type |-> "file", readable |-> TRUE, content |-> content]
Unreadable(name) ==
  [name |-> name, type |-> "file", readable |-> FALSE, content |-> NoFrontMatter]
SubDir(name) ==
  [name |-> name, type |-> "dir", readable |-> TRUE, content |-> NoFrontMatter]

\* what is found at ./<category>
AbsentDir == [kind |-> "absent", entries |-> <<>>]
NotADir == [kind |-> "file", entries |-> <<>>]
Dir(entries) == [kind |-> "dir", entries |-> entries]

With(data, key, v) == [data EXCEPT ![key] = v]

\* listings of at most n entries of E with pairwise different names, in
\* every order
Listings(E, n) ==
  {l \in UNION {[1..k -> E] : k \in 0..n} :
     \A i, j \in 1..Len(l) : i # j => l[i].name # l[j].name}

\* documents of the structure corpora
XData == With(With(EmptyData, "title", Str(<<"X">>)),
              "tags", Arr(<< <<"o", "n", "e">>, <<"t", "w", "o">> >>))
StructureEntries ==
  { File(<<"x">> \o md, FrontMatter(XData)),
    File(<<"y">> \o md, NoFrontMatter),
    File(<<"n", ".", "t", "x", "t">>, NoFrontMatter),
    Unreadable(<<"u">> \o md) }

\* documents of the content corpora
Names == { <<"x">> \o md, <<"p">> \o md \o <<".", "q">> \o md, md,
           <<"n", ".", "t", "x", "t">>, <<"z", ".", "M", "D">> }
TitleValues == {Undef, Null, Str(<<>>), Str(<<"X">>), Num(0), Num(7)}
DescriptionValues == {Undef, Null, Str(<<>>), Str(<<"D">>)}
EnrichmentValues ==
  { [author |-> Undef, created |-> Undef, tags |-> Undef],
    [author |-> Str(<<"A">>), created |-> Str(<<"2", "0", "2", "0", "-", "0", "1", "-", "0", "1">>),
     tags |-> Arr(<< <<"o", "n", "e">>, <<"t", "w", "o">> >>)],
    [author |-> Str(<<>>), created |-> DateObj(1), tags |-> Str(<<"s", "o", "l", "o">>)] }
OtherValues ==
  { [filename |-> Undef, link |-> Undef, category |-> Undef, model |-> Undef],
    [filename |-> Str(<<"e", "v", "i", "l", ".", "m", "d">>), link |-> Str(<<"e", "v", "i", "l", "/", "e", "v", "i", "l", ".", "m", "d">>),
     category |-> Str(<<"e", "v", "i", "l">>), model |-> Str(<<"M">>)] }
DataValues ==
  { [key \in Keys |->
       CASE key = "title" -> ti
         [] key = "description" -> de
         [] key \in DOMAIN en -> en[key]
         [] OTHER -> ot[key]] :
    ti \in TitleValues, de \in DescriptionValues,
    en \in EnrichmentValues, ot \in OtherValues }
Contents ==
  {NoFrontMatter, BadYaml("closed"), BadYaml("unclosed"),
   Unclosed(EmptyData), Unclosed(XData)}
  \cup {FrontMatter(d) : d \in DataValues}
ContentEntries ==
  {File(name, c) : name \in {n \in Names : EndsWith(n, md)}, c \in Contents}
  \cup {File(name, NoFrontMatter) : name \in Names}
  \cup {SubDir(<<"s">> \o md), Unreadable(<<"u">> \o md)}

NoFile == [exists |-> FALSE, json |-> <<>>]
Written(json) == [exists |-> TRUE, json |-> json]
\* a catalog left by an earlier build of another corpus
Stale == Written(<< [key |-> <<"o", "l", "d">>, val |-> <<>>] >>)

NoError == [kind |-> "none", at |-> 0]
Error(kind, c) == [kind |-> kind, at |-> c]

(***************************************************************************)
(* Initial states                                                          *)
(***************************************************************************)
NumCategories == Len(categories)

\* the process state when node starts the script
Started ==
  /\ pc = "cat"
  /\ ci = 1
  /\ files = <<>>
  /\ fi = 1
  /\ index = <<>>
  /\ console = <<>>
  /\ err = NoError
  /\ writes = 0

RECURSIVE CountEntries(_, _)
\* the number of directory entries in the first n categories of corpus f
CountEntries(f, n) ==
  IF n = 0 THEN 0 ELSE Len(f[n].entries) + CountEntries(f, n - 1)

\* the categories that have a directory in the structure corpora: the
\* inner ones, so that absent categories come first, between and last
Populated == 2..(NumCategories - 1)

\* corpora that vary the directory structure: at most MaxPresent category
\* directories, holding at most MaxFiles entries together
InitStructureUpTo(present) ==
  /\ \E P \in {Q \in SUBSET Populated : Cardinality(Q) <= present} :
       \E g \in [P -> {Dir(l) : l \in Listings(StructureEntries, MaxFiles)}] :
         /\ fs = [c \in 1..NumCategories |-> IF c \in P THEN g[c] ELSE AbsentDir]
         /\ CountEntries(fs, NumCategories) <= MaxFiles
  /\ outFile = Stale

InitStructure == InitStructureUpTo(MaxPresent)

\* corpora in which the path of one category is a regular file
InitNotADir ==
  /\ \E c, c2 \in 1..NumCategories :
       \E l \in Listings(StructureEntries, 1) :
         /\ c # c2
         /\ fs = [x \in 1..NumCategories |->
                    IF x = c THEN NotADir
                    ELSE IF x = c2 THEN Dir(l) ELSE AbsentDir]
  /\ outFile = Stale

\* corpora that vary the content of one document
InitContent ==
  /\ \E e \in ContentEntries :
       fs = [c \in 1..NumCategories |-> IF c = 3 THEN Dir(<<e>>) ELSE AbsentDir]
  /\ outFile = NoFile

Init ==
  /\ InitStructure \/ InitNotADir \/ InitContent
  /\ now = Day(1)
  /\ Started
  /\ run = 1
  /\ prevOut = outFile
  /\ prevDone = FALSE
  /\ t0 = now

(***************************************************************************)
(* The script                                                              *)
(***************************************************************************)
\* fs.existsSync(categoryDir)
existsSync(c) == fs[c].kind # "absent"

\* fs.readdirSync(categoryDir): the names of the entries, in listing order
readdirSync(c) == [i \in 1..Len(fs[c].entries) |-> fs[c].entries[i].name]

\* the directory entry of category c named name
Entry(c, name) ==
  fs[c].entries[CHOOSE i \in 1..Len(fs[c].entries) : fs[c].entries[i].name = name]

Accepts(f) == EndsWith(f, md)

\* the uncaught exception ends the process
Throw(kind) ==
  /\ pc' = "failed"
  /\ err' = Error(kind, ci)
  /\ UNCHANGED <<fs, outFile, now, ci, files, fi, index, console, run,
                 prevOut, prevDone, t0, writes>>

\* the loop body with index[category] = [] moved inside the if
SkipCategoryNoKey ==
  /\ pc = "cat"
  /\ ci <= NumCategories
  /\ ~existsSync(ci)
  /\ ci' = ci + 1
  /\ UNCHANGED <<fs, outFile, now, pc, files, fi, index, console, err, run,
                 prevOut, prevDone, t0, writes>>

\* loop body, lines 9-12, for a category with nothing at its path
SkipCategory ==
  /\ pc = "cat"
  /\ ci <= NumCategories
  /\ ~existsSync(ci)
  /\ index' = SetKey(index, categories[ci], <<>>)
  /\ ci' = ci + 1
  /\ UNCHANGED <<fs, outFile, now, pc, files, fi, console, err, run,
                 prevOut, prevDone, t0, writes>>

\* loop body, lines 9-13, for a category whose path is a directory
ListCategory ==
  /\ pc = "cat"
  /\ ci <= NumCategories
  /\ existsSync(ci)
  /\ fs[ci].kind = "dir"
  /\ index' = SetKey(index, categories[ci], <<>>)
  /\ files' = SelectSeq(readdirSync(ci), Accepts)
  /\ fi' = 1
  /\ IF files' = <<>>
     THEN pc' = "cat" /\ ci' = ci + 1
     ELSE pc' = "file" /\ ci' = ci
  /\ UNCHANGED <<fs, outFile, now, console, err, run, prevOut, prevDone, t0, writes>>

\* loop body, lines 9-13, for a category whose path is not a directory:
\* readdirSync throws ENOTDIR
ListFails ==
  /\ pc = "cat"
  /\ ci <= NumCategories
  /\ existsSync(ci)
  /\ fs[ci].kind # "dir"
  /\ index' = SetKey(index, categories[ci], <<>>)
  /\ pc' = "failed"
  /\ err' = Error("ENOTDIR", ci)
  /\ UNCHANGED <<fs, outFile, now, ci, files, fi, console, run,
                 prevOut, prevDone, t0, writes>>

\* readFileSync throws and the records collected so far are flushed to
\* index.json before the process ends
ReadFailsFlush ==
  /\ pc = "file"
  /\ LET e == Entry(ci, files[fi])
     IN e.type = "dir" \/ (e.type = "file" /\ ~e.readable)
  /\ pc' = "failed"
  /\ err' = Error(IF Entry(ci, files[fi]).type = "dir" THEN "EISDIR" ELSE "EACCES", ci)
  /\ outFile' = Written(Stringify(index))
  /\ writes' = writes + 1
  /\ UNCHANGED <<fs, now, ci, files, fi, index, console, run,
                 prevOut, prevDone, t0>>

\* files.forEach body, line 17: readFileSync throws
ReadFails ==
  /\ pc = "file"
  /\ LET e == Entry(ci, files[fi])
     IN \/ e.type = "dir" /\ Throw("EISDIR")
        \/ e.type = "file" /\ ~e.readable /\ Throw("EACCES")

\* files.forEach body, lines 17-18: matter throws
ParseFails ==
  /\ pc = "file"
  /\ LET e == Entry(ci, files[fi])
     IN /\ e.type = "file"
        /\ e.readable
        /\ matter(e.content).threw
        /\ Throw("YAMLException")

\* the files.forEach body saving index.json after every push
PushRecordSave ==
  /\ pc = "file"
  /\ LET e == Entry(ci, files[fi])
         parsed == matter(e.content)
     IN /\ e.type = "file"
        /\ e.readable
        /\ ~parsed.threw
        /\ index' = Push(index, categories[ci],
                         Record(categories[ci], files[fi], parsed.data, now))
  /\ outFile' = Written(Stringify(index'))
  /\ writes' = writes + 1
  /\ IF fi = Len(files)
     THEN pc' = "cat" /\ ci' = ci + 1 /\ fi' = fi
     ELSE pc' = "file" /\ ci' = ci /\ fi' = fi + 1
  /\ UNCHANGED <<fs, now, files, console, err, run, prevOut, prevDone, t0>>

\* the files.forEach body writing the parsed front matter, with the title
\* filled in, back to the document
PushRecordRewrite ==
  /\ pc = "file"
  /\ LET e == Entry(ci, files[fi])
         parsed == matter(e.content)
         rec == Record(categories[ci], files[fi], parsed.data, now)
     IN /\ e.type = "file"
        /\ e.readable
        /\ ~parsed.threw
        /\ index' = Push(index, categories[ci], rec)
        /\ fs' = [fs EXCEPT ![ci].entries =
                    [i \in 1..Len(@) |->
                       IF @[i].name = files[fi]
                       THEN [@[i] EXCEPT !.content =
                               FrontMatter(With(parsed.data, "title", rec.title))]
                       ELSE @[i]]]
  /\ IF fi = Len(files)
     THEN pc' = "cat" /\ ci' = ci + 1 /\ fi' = fi
     ELSE pc' = "file" /\ ci' = ci /\ fi' = fi + 1
  /\ UNCHANGED <<outFile, now, files, console, err, run, prevOut,
                 prevDone, t0, writes>>

\* files.forEach body, lines 16-30
PushRecord ==
  /\ pc = "file"
  /\ LET e == Entry(ci, files[fi])
         parsed == matter(e.content)
     IN /\ e.type = "file"
        /\ e.readable
        /\ ~parsed.threw
        /\ index' = Push(index, categories[ci],
                         Record(categories[ci], files[fi], parsed.data, now))
  /\ IF fi = Len(files)
     THEN pc' = "cat" /\ ci' = ci + 1 /\ fi' = fi
     ELSE pc' = "file" /\ ci' = ci /\ fi' = fi + 1
  /\ UNCHANGED <<fs, outFile, now, files, console, err, run, prevOut,
                 prevDone, t0, writes>>

\* line 35 with the catalog appended to the existing file
WriteIndexAppend ==
  /\ pc = "cat"
  /\ ci > NumCategories
  /\ outFile' = Written(outFile.json \o Stringify(index))
  /\ pc' = "log"
  /\ writes' = writes + 1
  /\ UNCHANGED <<fs, now, ci, files, fi, index, console, err, run, prevOut,
                 prevDone, t0>>

\* line 35 with the keys of the existing file kept: { ...old, ...index }
WriteIndexMerge ==
  /\ pc = "cat"
  /\ ci > NumCategories
  /\ LET Old(e) == ~HasKey(index, e.key)
     IN outFile' = Written(SelectSeq(outFile.json, Old) \o Stringify(index))
  /\ pc' = "log"
  /\ writes' = writes + 1
  /\ UNCHANGED <<fs, now, ci, files, fi, index, console, err, run, prevOut,
                 prevDone, t0>>

\* line 35 with a top-level generated timestamp added to the catalog
WriteIndexGenerated ==
  /\ pc = "cat"
  /\ ci > NumCategories
  /\ outFile' = Written(<<[key |-> <<"g", "e", "n", "e", "r", "a", "t", "e", "d">>,
                           val |-> ISOString(now)]>> \o Stringify(index))
  /\ pc' = "log"
  /\ writes' = writes + 1
  /\ UNCHANGED <<fs, now, ci, files, fi, index, console, err, run, prevOut,
                 prevDone, t0>>

\* line 35 guarded by a test that there is something to write
WriteIndexUnlessEmpty ==
  /\ pc = "cat"
  /\ ci > NumCategories
  /\ IF Flat(Values(index)) = <<>>
     THEN UNCHANGED <<outFile, writes>>
     ELSE outFile' = Written(Stringify(index)) /\ writes' = writes + 1
  /\ pc' = "log"
  /\ UNCHANGED <<fs, now, ci, files, fi, index, console, err, run, prevOut,
                 prevDone, t0>>

\* line 35
WriteIndex ==
  /\ pc = "cat"
  /\ ci > NumCategories
  /\ outFile' = Written(Stringify(index))
  /\ pc' = "log"
  /\ writes' = writes + 1
  /\ UNCHANGED <<fs, now, ci, files, fi, index, console, err, run, prevOut,
                 prevDone, t0>>

\* line 35 in a try/catch that records the error and goes on to line 36
WriteFailsCaught ==
  /\ pc = "cat"
  /\ ci > NumCategories
  /\ pc' = "log"
  /\ err' = Error("EACCES-write", ci)
  /\ writes' = writes + 1
  /\ UNCHANGED <<fs, outFile, now, ci, files, fi, index, console, run,
                 prevOut, prevDone, t0>>

\* line 35: the output path cannot be opened for writing
WriteFails ==
  /\ pc = "cat"
  /\ ci > NumCategories
  /\ pc' = "failed"
  /\ err' = Error("EACCES-write", ci)
  /\ writes' = writes + 1
  /\ UNCHANGED <<fs, outFile, now, ci, files, fi, index, console, run,
                 prevOut, prevDone, t0>>

\* line 36
LogSummary ==
  /\ pc = "log"
  /\ console' = Append(console, Len(Flat(Values(index))))
  /\ pc' = "done"
  /\ UNCHANGED <<fs, outFile, now, ci, files, fi, index, err, run, prevOut,
                 prevDone, t0, writes>>

(***************************************************************************)
(* The environment                                                         *)
(***************************************************************************)
\* the clock passes midnight UTC.  The script reads the clock on line 28
\* only, so the days that matter are those between two files.
Tick ==
  /\ pc = "file"
  /\ now.d < MaxDay
  /\ now' = Day(now.d + 1)
  /\ UNCHANGED <<fs, outFile, pc, ci, files, fi, index, console, err, run,
                 prevOut, prevDone, t0, writes>>

\* the script is invoked again on the same corpus
Rerun ==
  /\ pc \in {"done", "failed"}
  /\ run < MaxRuns
  /\ run' = run + 1
  /\ prevOut' = outFile
  /\ prevDone' = (pc = "done")
  /\ pc' = "cat"
  /\ ci' = 1
  /\ files' = <<>>
  /\ fi' = 1
  /\ index' = <<>>
  /\ console' = <<>>
  /\ err' = NoError
  /\ writes' = 0
  /\ UNCHANGED <<fs, outFile, now, t0>>

Next ==
  \/ SkipCategory
  \/ ListCategory
  \/ ListFails
  \/ ReadFails
  \/ ParseFails
  \/ PushRecord
  \/ WriteIndex
  \/ WriteFails
  \/ LogSummary
  \/ Tick
  \/ Rerun

Spec == Init /\ [][Next]_vars

TypeOK ==
  /\ pc \in {"cat", "file", "log", "done", "failed"}
  /\ ci \in 1..(NumCategories + 1)
  /\ run \in 1..MaxRuns

(***************************************************************************)
(* Vocabulary of the properties                                            *)
(***************************************************************************)
Dirs == {c \in 1..NumCategories : fs[c].kind = "dir"}

\* the names the scanner keeps of category c, in listing order
Accepted(c) == SelectSeq(readdirSync(c), Accepts)

\* the array under the key of category c in index.json
ArrayOf(c) == IF HasKey(outFile.json, categories[c])
              THEN Get(outFile.json, categories[c]) ELSE <<>>

\* the documents that have a record in index.json, by category and position
Documents ==
  {d \in Dirs \X (1..MaxFiles) :
     d[2] <= Len(Accepted(d[1])) /\ d[2] <= Len(ArrayOf(d[1]))}

NameOf(d) == Accepted(d[1])[d[2]]
ContentOf(d) == Entry(d[1], NameOf(d)).content
MetaOf(d) == matter(ContentOf(d)).data
RecordOf(d) == ArrayOf(d[1])[d[2]]

\* the filename without its extension
StripExtension(f) == SubSeq(f, 1, Len(f) - Len(md))

RECURSIVE SumLen(_)
SumLen(obj) == IF obj = <<>> THEN 0 ELSE Len(Head(obj).val) + SumLen(Tail(obj))

(***************************************************************************)
(* C1: after a successful run the array of every category whose directory  *)
(* exists holds exactly one record per accepted file, in listing order.    *)
(***************************************************************************)
C1_OneRecordPerFileInOrder ==
  pc = "done" =>
    \A c \in Dirs :
      /\ Len(ArrayOf(c)) = Len(Accepted(c))
      /\ \A j \in 1..Len(Accepted(c)) :
           j <= Len(ArrayOf(c)) => ArrayOf(c)[j].filename = Str(Accepted(c)[j])

\* a listing of two accepted files that is not in alphabetical order
C1_Witness ==
  /\ pc = "done"
  /\ \E c \in Dirs :
       /\ Len(ArrayOf(c)) = 2
       /\ ArrayOf(c)[1].filename = Str(<<"y">> \o md)
       /\ ArrayOf(c)[2].filename = Str(<<"x">> \o md)

(***************************************************************************)
(* C2: filename, link and category of a record are computed from the       *)
(* category and the file name only, whatever the front matter holds.       *)
(***************************************************************************)
C2_DerivedFieldsIgnoreMetadata ==
  pc = "done" =>
    \A d \in Documents :
      /\ RecordOf(d).filename = Str(NameOf(d))
      /\ RecordOf(d).link = Str(categories[d[1]] \o <<"/">> \o NameOf(d))
      /\ RecordOf(d).category = Str(categories[d[1]])

\* a written record of a document whose front matter sets all three keys
C2_Witness ==
  /\ pc = "done"
  /\ \E d \in Documents :
       /\ MetaOf(d)["link"].k = "string"
       /\ MetaOf(d)["category"].k = "string"
       /\ MetaOf(d)["filename"].k = "string"

(***************************************************************************)
(* C3: a malformed metadata header (no closing marker, unparseable block)  *)
(* never aborts the run, and the file's record is built from the defaults. *)
(***************************************************************************)
Malformed(content) == content.hdr = "unclosed" \/ content.yaml = "bad"

C3_MalformedHeaderTolerated ==
  /\ err.kind # "YAMLException"
  /\ pc = "done" =>
       \A d \in Documents :
         Malformed(ContentOf(d)) =>
           /\ RecordOf(d).title = Str(StripExtension(NameOf(d)))
           /\ RecordOf(d).description = Str(NoDescription)
           /\ RecordOf(d).author = Str(Unknown)
           /\ RecordOf(d).tags = Arr(<<>>)

(***************************************************************************)
(* C4: two successful runs on the unchanged corpus leave the same          *)
(* index.json, also across a change of date.                               *)
(***************************************************************************)
C4_RerunIdentical ==
  (run >= 2 /\ prevDone /\ pc = "done") => outFile = prevOut

\* every document of the corpus gives a created value the script keeps
AllCreatedGiven ==
  \A c \in Dirs : \A j \in 1..Len(Accepted(c)) :
    LET e == Entry(c, Accepted(c)[j])
    IN Truthy(matter(e.content).data["created"])

\* C4 as amended: the two outputs are identical when the date did not
\* change since the first run started, or when no document needs the
\* created default.
C4_RerunIdenticalSameDate ==
  (run >= 2 /\ prevDone /\ pc = "done" /\ (now = t0 \/ AllCreatedGiven))
    => outFile = prevOut

\* a second successful run, on the same date, of a corpus with a document
\* whose created is defaulted
C4_Witness ==
  /\ run >= 2 /\ prevDone /\ pc = "done" /\ now = t0
  /\ \E d \in Documents : ~Truthy(MetaOf(d)["created"])

(***************************************************************************)
(* C5: a document without front matter gets the filename without its       *)
(* extension as title and the placeholder as description, under every      *)
(* accepted filename.                                                      *)
(***************************************************************************)
C5_NoFrontMatterDefaults ==
  pc = "done" =>
    \A d \in Documents :
      ContentOf(d).hdr = "none" =>
        /\ RecordOf(d).title = Str(StripExtension(NameOf(d)))
        /\ RecordOf(d).description = Str(NoDescription)

(***************************************************************************)
(* C6: a title given in the front matter and non-empty is the record's     *)
(* title, verbatim.                                                        *)
(***************************************************************************)
NonEmpty(v) ==
  \/ v.k = "string" /\ Len(v.s) > 0
  \/ v.k = "number" /\ v.n # 0

C6_TitleFromMetadata ==
  pc = "done" =>
    \A d \in Documents :
      NonEmpty(MetaOf(d)["title"]) => RecordOf(d).title = MetaOf(d)["title"]

\* a written record whose front-matter title differs from the title the
\* filename would give
C6_Witness ==
  /\ pc = "done"
  /\ \E d \in Documents :
       /\ MetaOf(d)["title"] = Str(<<"X">>)
       /\ RecordOf(d).title = Str(<<"X">>)
       /\ NameOf(d) = <<"p">> \o md \o <<".", "q">> \o md

(***************************************************************************)
(* C7: the description is the front-matter value whenever the key is       *)
(* present, whatever its value, and the placeholder only when it is absent.*)
(***************************************************************************)
C7_DescriptionWheneverPresent ==
  pc = "done" =>
    \A d \in Documents :
      IF MetaOf(d)["description"].k # "undefined"
      THEN RecordOf(d).description = MetaOf(d)["description"]
      ELSE RecordOf(d).description = Str(NoDescription)

\* C7 as amended: the description is the front-matter value when the key is
\* present with a non-empty value, and the placeholder when the key is
\* absent or its value is empty (null, the empty string, 0).
C7_DescriptionWhenNonEmpty ==
  pc = "done" =>
    \A d \in Documents :
      IF NonEmpty(MetaOf(d)["description"])
      THEN RecordOf(d).description = MetaOf(d)["description"]
      ELSE RecordOf(d).description = Str(NoDescription)

\* written records of a given description and of an empty one
C7_Witness ==
  /\ pc = "done"
  /\ \E d \in Documents :
       /\ MetaOf(d)["description"] = Str(<<>>)
       /\ RecordOf(d).description = Str(NoDescription)

(***************************************************************************)
(* C8: a category with no directory on disk has its key in the written     *)
(* catalog, with an empty array, and does not make the run fail.           *)
(***************************************************************************)
C8_AbsentCategoryEmptyArray ==
  /\ pc = "done" =>
       \A c \in 1..NumCategories :
         fs[c].kind = "absent" =>
           /\ HasKey(outFile.json, categories[c])
           /\ Get(outFile.json, categories[c]) = <<>>
  /\ pc = "failed" =>
       (err.at \in 1..NumCategories => fs[err.at].kind # "absent")

\* a written catalog with records in one category and an absent category
\* before and after it
C8_Witness ==
  /\ pc = "done"
  /\ fs[1].kind = "absent"
  /\ fs[5].kind = "absent"
  /\ \E c \in Dirs : Len(ArrayOf(c)) > 0

(***************************************************************************)
(* C9: when reading a document fails the run aborts, index.json keeps the  *)
(* content it had before the run and no summary line is printed.           *)
(***************************************************************************)
AllReadable ==
  \A c \in Dirs : \A j \in 1..Len(Accepted(c)) :
    LET e == Entry(c, Accepted(c)[j]) IN e.type = "file" /\ e.readable

C9_ReadFailureWritesNothing ==
  /\ (pc = "failed" /\ err.kind \in {"EACCES", "EISDIR"}) =>
       (outFile = prevOut /\ console = <<>>)
  /\ pc \in {"log", "done"} => AllReadable

\* a read failure after records were collected, with a catalog of an
\* earlier build on disk
C9_Witness ==
  /\ pc = "failed"
  /\ err.kind = "EACCES"
  /\ prevOut = Stale
  /\ Len(Flat(Values(index))) > 0

(***************************************************************************)
(* C10: the count of the summary line is the sum of the lengths of the     *)
(* arrays of the written catalog.                                          *)
(***************************************************************************)
C10_SummaryCountsRecords ==
  pc = "done" => console = <<SumLen(outFile.json)>>

\* a summary over records in two categories
C10_Witness ==
  /\ pc = "done"
  /\ console = <<2>>
  /\ Cardinality({c \in Dirs : Len(ArrayOf(c)) > 0}) = 2

(***************************************************************************)
(* C11: the scanner selects exactly the regular files of the directory     *)
(* whose name ends in ".md"; other suffixes and ".MD" are left out, and a  *)
(* subdirectory is ignored, without record and without error, also when    *)
(* its name ends in ".md".                                                 *)
(***************************************************************************)
MarkdownFile(e) == e.type = "file" /\ EndsWith(e.name, md)

\* the names of the regular files of category c that end in ".md"
MarkdownFiles(c) ==
  LET sel == SelectSeq(fs[c].entries, MarkdownFile)
  IN [i \in 1..Len(sel) |-> sel[i].name]

C11_ScannerSelectsMarkdownFiles ==
  /\ pc = "file" => files = MarkdownFiles(ci)
  /\ err.kind # "EISDIR"
  /\ pc = "done" => \A c \in Dirs : Len(ArrayOf(c)) = Len(MarkdownFiles(c))

(***************************************************************************)
(* C12: author, created and tags take the front-matter value when the key  *)
(* is given, and otherwise "Unknown", the date of the build as YYYY-MM-DD  *)
(* and the empty sequence.                                                 *)
(***************************************************************************)
Digits == {"0", "1", "2", "3", "4", "5", "6", "7", "8", "9"}

\* s has the form YYYY-MM-DD
IsYMD(s) ==
  /\ Len(s) = 10
  /\ s[5] = "-" /\ s[8] = "-"
  /\ \A i \in {1, 2, 3, 4, 6, 7, 9, 10} : s[i] \in Digits

\* v is the YYYY-MM-DD string of a day the clock showed during the builds
IsBuildDate(v) ==
  /\ v.k = "string"
  /\ IsYMD(v.s)
  /\ \E dd \in t0.d..now.d : v.s = ISODate(Day(dd))

\* the key is given with a value that is not empty
GivenNonEmpty(v) == NonEmpty(v) \/ v.k \in {"array", "date"}

\* field f of the record has its default
IsDefault(f, v) ==
  CASE f = "author" -> v = Str(Unknown)
    [] f = "created" -> IsBuildDate(v)
    [] f = "tags" -> v = Arr(<<>>)

C12_EnrichmentWheneverGiven ==
  pc = "done" =>
    \A d \in Documents : \A f \in {"author", "created", "tags"} :
      IF MetaOf(d)[f].k # "undefined"
      THEN RecordOf(d)[f] = ToJSON(MetaOf(d)[f])
      ELSE IsDefault(f, RecordOf(d)[f])

\* C12 as amended: the fields take the front-matter value when the key is
\* given with a non-empty value, and their defaults when the key is absent
\* or its value is empty.
C12_EnrichmentWhenNonEmpty ==
  pc = "done" =>
    \A d \in Documents : \A f \in {"author", "created", "tags"} :
      IF GivenNonEmpty(MetaOf(d)[f])
      THEN RecordOf(d)[f] = ToJSON(MetaOf(d)[f])
      ELSE IsDefault(f, RecordOf(d)[f])

\* a written record with all three defaults, built after the clock advanced
C12_Witness ==
  /\ pc = "done"
  /\ now # t0
  /\ \E d \in Documents :
       /\ \A f \in {"author", "created", "tags"} : MetaOf(d)[f] = Undef
       /\ RecordOf(d).author = Str(Unknown)
       /\ RecordOf(d).created = Str(ISODate(now))
       /\ RecordOf(d).tags = Arr(<<>>)

(***************************************************************************)
(* C13: the written catalog is a function of the scanned corpus and of the *)
(* build time only; whatever index.json held before is replaced, nothing   *)
(* of it is kept or merged.                                                *)
(***************************************************************************)
\* a record as JSON.stringify writes it
Serialised(r) == [f \in DOMAIN r |-> ToJSON(r[f])]

\* the records category c must have in the catalog: one per accepted file,
\* built from that file's front matter on a day of the builds
IsCatalogOf(c, arr) ==
  /\ Len(arr) = IF c \in Dirs THEN Len(Accepted(c)) ELSE 0
  /\ \A j \in 1..Len(arr) :
       \E dd \in t0.d..now.d :
         arr[j] = Serialised(Record(categories[c], Accepted(c)[j],
                                    matter(Entry(c, Accepted(c)[j]).content).data,
                                    Day(dd)))

C13_CatalogRegenerated ==
  pc \in {"log", "done"} =>
    /\ outFile.exists
    /\ Len(outFile.json) = NumCategories
    /\ \A c \in 1..NumCategories :
         c <= Len(outFile.json) =>
           /\ outFile.json[c].key = categories[c]
           /\ IsCatalogOf(c, outFile.json[c].val)

\* a catalog with records written over the catalog of an earlier build
C13_Witness ==
  /\ pc = "done"
  /\ prevOut = Stale
  /\ SumLen(outFile.json) > 0

(***************************************************************************)
(* C14: index.json is not touched before every category and file has been  *)
(* processed; a successful run writes it exactly once, as its last effect  *)
(* before the summary line, and prints the summary only after the write.   *)
(***************************************************************************)
C14_WriteOnceAtEnd ==
  /\ pc \in {"cat", "file"} =>
       (writes = 0 /\ outFile = prevOut /\ console = <<>>)
  /\ pc = "log" =>
       /\ writes = 1 /\ console = <<>>
       /\ ci > NumCategories
       /\ \A c \in 1..NumCategories : Len(ArrayOf(c)) = Len(Get(index, categories[c]))
  /\ pc = "done" => (writes = 1 /\ Len(console) = 1)
  /\ pc = "failed" => (writes <= 1 /\ console = <<>> /\ outFile = prevOut)

\* a finished run that replaced the earlier catalog by one with records
C14_Witness ==
  /\ pc = "done"
  /\ writes = 1
  /\ outFile # prevOut
  /\ \E c \in Dirs : Len(ArrayOf(c)) = 2

(***************************************************************************)
(* C15: the keys of the written catalog are exactly the configured         *)
(* category names, in their declaration order, whichever directories       *)
(* exist and whatever they contain.                                        *)
(***************************************************************************)
\* Object.keys of the written catalog
KeysOf(json) == [i \in 1..Len(json) |-> json[i].key]

C15_KeysAreCategoriesInOrder ==
  pc \in {"log", "done"} => KeysOf(outFile.json) = categories

\* a catalog where only some of the categories have a directory, and only
\* a later one has records
C15_Witness ==
  /\ pc = "done"
  /\ fs[1].kind = "absent"
  /\ \E c, c2 \in Dirs :
       /\ c < c2
       /\ Len(ArrayOf(c)) = 0
       /\ Len(ArrayOf(c2)) > 0

(***************************************************************************)
(* C16: the catalog of the configuration that emits author, created and    *)
(* tags carries a top-level generated timestamp next to the category       *)
(* arrays.                                                                 *)
(***************************************************************************)
generated == <<"g", "e", "n", "e", "r", "a", "t", "e", "d">>

C16_GeneratedTimestamp ==
  pc \in {"log", "done"} => HasKey(outFile.json, generated)

\* C16 as amended: the catalog of this configuration holds the category
\* arrays only; it has no top-level generated field.
C16_NoGeneratedTimestamp ==
  pc \in {"log", "done"} =>
    /\ ~HasKey(outFile.json, generated)
    /\ \A i \in 1..Len(outFile.json) :
         \E c \in 1..NumCategories : outFile.json[i].key = categories[c]

\* a written catalog whose records carry author, created and tags
C16_Witness ==
  /\ pc = "done"
  /\ \E d \in Documents :
       {"author", "created", "tags"} \subseteq DOMAIN RecordOf(d)

(***************************************************************************)
(* C17: front-matter keys the script does not know are ignored: a record   *)
(* has exactly the fields title, description, filename, link, category,    *)
(* author, created and tags, and it is the record the document would get   *)
(* with every other key removed from its front matter.                     *)
(***************************************************************************)
Fields == {"title", "description", "filename", "link", "category",
           "author", "created", "tags"}
KnownKeys == {"title", "description", "author", "created", "tags"}

\* the front matter with the keys outside KnownKeys removed
KnownOnly(data) == [key \in Keys |-> IF key \in KnownKeys THEN data[key] ELSE Undef]

C17_UnknownKeysIgnored ==
  pc = "done" =>
    \A d \in Documents :
      /\ DOMAIN RecordOf(d) = Fields
      /\ \A f \in DOMAIN RecordOf(d) : RecordOf(d)[f].k # "undefined"
      /\ \E dd \in t0.d..now.d :
           RecordOf(d) = Serialised(Record(categories[d[1]], NameOf(d),
                                           KnownOnly(MetaOf(d)), Day(dd)))

\* a written record of a document whose front matter has a key the script
\* does not read
C17_Witness ==
  /\ pc = "done"
  /\ \E d \in Documents :
       /\ MetaOf(d)["model"] = Str(<<"M">>)
       /\ MetaOf(d)["title"] = Str(<<"X">>)
       /\ DOMAIN RecordOf(d) = Fields

(***************************************************************************)
(* C18: for the corpus where one category holds x.md (front matter         *)
(* title: X, tags: [one, two]) and y.md (no front matter) and the other    *)
(* categories are empty or absent, the catalog has the two records of x.md *)
(* and y.md, in that order, under that category and [] under the others.   *)
(***************************************************************************)
one == <<"o", "n", "e">>
two == <<"t", "w", "o">>
x_md == <<"x", ".", "m", "d">>
y_md == <<"y", ".", "m", "d">>

\* category a of the scenario is category c of the corpus
IsScenario(c) ==
  /\ fs[c] = Dir(<< File(x_md, FrontMatter([key \in Keys |->
                           CASE key = "title" -> Str(<<"X">>)
                             [] key = "tags" -> Arr(<<one, two>>)
                             [] OTHER -> Undef])),
                    File(y_md, NoFrontMatter) >>)
  /\ \A b \in 1..NumCategories \ {c} :
       fs[b].kind = "absent" \/ (fs[b].kind = "dir" /\ fs[b].entries = <<>>)

C18_Scenario ==
  pc = "done" =>
    \A c \in 1..NumCategories :
      IsScenario(c) =>
        /\ KeysOf(outFile.json) = categories
        /\ \A b \in 1..NumCategories \ {c} : outFile.json[b].val = <<>>
        /\ Len(outFile.json[c].val) = 2
        /\ LET x == outFile.json[c].val[1]
               y == outFile.json[c].val[2]
           IN /\ x.filename = Str(x_md)
              /\ x.title = Str(<<"X">>)
              /\ x.description = Str(NoDescription)
              /\ x.link = Str(categories[c] \o <<"/">> \o x_md)
              /\ x.tags = Arr(<<one, two>>)
              /\ x.category = Str(categories[c])
              /\ x.author = Str(Unknown)
              /\ IsBuildDate(x.created)
              /\ y.filename = Str(y_md)
              /\ y.title = Str(<<"y">>)
              /\ y.description = Str(NoDescription)
              /\ y.link = Str(categories[c] \o <<"/">> \o y_md)
              /\ y.tags = Arr(<<>>)
              /\ y.category = Str(categories[c])
              /\ y.author = Str(Unknown)
              /\ IsBuildDate(y.created)

\* the scenario's corpus after a successful run, once with an absent and
\* once with an empty other category
C18_Witness ==
  /\ pc = "done"
  /\ \E c \in 1..NumCategories :
       /\ IsScenario(c)
       /\ \E b \in Dirs : b # c
       /\ \E b \in 1..NumCategories : fs[b].kind = "absent"

(***************************************************************************)
(* C19: on a corpus whose files are all readable and parseable, with a     *)
(* writable output path, the run terminates with the catalog written and   *)
(* exactly one summary line printed.                                       *)
(***************************************************************************)
\* the steps of the script; node runs it to completion
Step ==
  \/ SkipCategory
  \/ ListCategory
  \/ ListFails
  \/ ReadFails
  \/ ParseFails
  \/ PushRecord
  \/ WriteIndex
  \/ WriteFails
  \/ LogSummary

\* the corpora of the fair specification: the structure corpora with one
\* category directory, and every corpus of the other two families
InitFair ==
  /\ InitStructureUpTo(1) \/ InitNotADir \/ InitContent
  /\ now = Day(1)
  /\ Started
  /\ run = 1
  /\ prevOut = outFile
  /\ prevDone = FALSE
  /\ t0 = now

\* node runs the script to its end: a step that is possible is taken
FairSpec == InitFair /\ [][Next]_vars /\ WF_vars(Step)

\* every category path can be listed and every file the script reads can
\* be read and parsed
Clean ==
  /\ \A c \in 1..NumCategories : fs[c].kind \in {"absent", "dir"}
  /\ AllReadable
  /\ \A c \in Dirs : \A j \in 1..Len(Accepted(c)) :
       ~matter(Entry(c, Accepted(c)[j]).content).threw

Completed ==
  /\ pc = "done"
  /\ writes = 1
  /\ outFile = Written(Stringify(index))
  /\ Len(console) = 1

C19_CleanRunCompletes ==
  Clean ~> (Completed \/ (pc = "failed" /\ err.kind = "EACCES-write"))

\* a completed run over a corpus with records
C19_Witness ==
  /\ Clean
  /\ Completed
  /\ console[1] > 0

(***************************************************************************)
(* C20: when index.json cannot be written the failure is fatal: the write  *)
(* was attempted once, it is not retried, and no summary line is printed.  *)
(***************************************************************************)
C20_WriteFailureIsFatal ==
  err.kind = "EACCES-write" =>
    /\ pc = "failed"
    /\ writes = 1
    /\ console = <<>>

\* a failed write of a catalog with records
C20_Witness ==
  /\ pc = "failed"
  /\ err.kind = "EACCES-write"
  /\ writes = 1
  /\ Len(Flat(Values(index))) = 2

(***************************************************************************)
(* C21: a document with front matter whose title key is absent or empty    *)
(* gets the filename with only its trailing ".md" dropped as title, also   *)
(* when the name holds ".md" before the final suffix.                      *)
(***************************************************************************)
HasFrontMatter(content) == content.hdr # "none" /\ content.yaml = "ok"

C21_TitleDefaultStripsSuffix ==
  pc = "done" =>
    \A d \in Documents :
      (HasFrontMatter(ContentOf(d)) /\ ~NonEmpty(MetaOf(d)["title"])) =>
        RecordOf(d).title = Str(StripExtension(NameOf(d)))

(***************************************************************************)
(* C22: a category without a directory of its name yields an empty file    *)
(* list and no error, also when an entry of that name exists on disk as a  *)
(* regular file.                                                           *)
(***************************************************************************)
NoDirectory(c) == fs[c].kind # "dir"

C22_NoDirectoryEmptyList ==
  /\ pc = "failed" =>
       (err.at \in 1..NumCategories => ~NoDirectory(err.at))
  /\ pc = "done" =>
       \A c \in 1..NumCategories :
         NoDirectory(c) =>
           /\ HasKey(outFile.json, categories[c])
           /\ Get(outFile.json, categories[c]) = <<>>

(***************************************************************************)
(* C23: within one run every record whose created was defaulted carries    *)
(* the same date, also when the clock passes a date boundary between two   *)
(* files.                                                                  *)
(***************************************************************************)
CreatedDefaulted(d) == ~Truthy(MetaOf(d)["created"])

C23_OneBuildTimePerRun ==
  pc = "done" =>
    \A d1, d2 \in Documents :
      (CreatedDefaulted(d1) /\ CreatedDefaulted(d2)) =>
        RecordOf(d1).created = RecordOf(d2).created

(***************************************************************************)
(* C24: in every record of the written catalog title, description,         *)
(* filename, link, category, author and created are strings, whatever      *)
(* values the front matter gives.                                          *)
(***************************************************************************)
StringFields ==
  {"title", "description", "filename", "link", "category", "author", "created"}

C24_StringFields ==
  pc = "done" =>
    \A d \in Documents :
      \A f \in StringFields : RecordOf(d)[f].k = "string"

(***************************************************************************)
(* C25: a run modifies no file or directory other than index.json: every   *)
(* document and every category directory stays as it was, on successful    *)
(* and on aborted runs alike.                                              *)
(***************************************************************************)
C25_CorpusUntouched == [][fs' = fs]_vars

\* a successful run with a record, after a run that was aborted
C25_Witness ==
  /\ run = 2
  /\ ~prevDone
  /\ pc = "done"
  /\ Documents # {}

(***************************************************************************)
(* C26: the tags of every written record are an ordered sequence: the      *)
(* front-matter list in its order when one is given and the empty sequence *)
(* otherwise, never a scalar.                                              *)
(***************************************************************************)
C26_TagsAreASequence ==
  pc = "done" =>
    \A d \in Documents :
      /\ RecordOf(d).tags.k = "array"
      /\ IF MetaOf(d)["tags"].k = "array"
         THEN RecordOf(d).tags = MetaOf(d)["tags"]
         ELSE RecordOf(d).tags = Arr(<<>>)

(***************************************************************************)
(* C27: every record of the written catalog has a non-empty title, for     *)
(* every accepted filename, a file named exactly ".md" included, and every *)
(* front-matter content.                                                   *)
(***************************************************************************)
C27_TitleNonEmpty ==
  pc = "done" =>
    \A d \in Documents : NonEmpty(RecordOf(d).title)

(***************************************************************************)
(* C28: the links of the written catalog are pairwise distinct across all  *)
(* categories, and every record under the key of category c has category  *)
(* c and a link that starts with c and a slash.                            *)
(***************************************************************************)
\* the positions of the records of index.json, by category
Positions ==
  {p \in (1..NumCategories) \X (1..MaxFiles) : p[2] <= Len(ArrayOf(p[1]))}

C28_LinksDistinct ==
  pc = "done" =>
    /\ \A p \in Positions :
         /\ ArrayOf(p[1])[p[2]].category = Str(categories[p[1]])
         /\ ArrayOf(p[1])[p[2]].link.k = "string"
         /\ StartsWith(ArrayOf(p[1])[p[2]].link.s, categories[p[1]] \o slash)
    /\ \A p, q \in Positions :
         p # q => ArrayOf(p[1])[p[2]].link # ArrayOf(q[1])[q[2]].link
    /\ Cardinality(Positions) = SumLen(outFile.json)

\* a catalog with a document of the same filename in two categories
C28_Witness ==
  /\ pc = "done"
  /\ \E p, q \in Positions :
       /\ p[1] # q[1]
       /\ ArrayOf(p[1])[p[2]].filename = ArrayOf(q[1])[q[2]].filename

====
